---- MODULE Spec2Model ----
(***************************************************************************)
(* A model of twig's tmux control-mode client (src/src/tmux_control.rs),    *)
(* of its streaming command runner and of its worktree orchestrator        *)
(* (src/src/git.rs).                                                       *)
(*                                                                         *)
(* Text is modelled at the level of characters: a line is a sequence of    *)
(* one-character strings, so that starts_with, trim_end_matches,           *)
(* split_whitespace and str::parse::<u64> are computed as the code         *)
(* computes them.                                                          *)
(***************************************************************************)
EXTENDS Integers, Sequences, FiniteSets, TLC

VARIABLES
    \* ---- ControlClient (tmux_control.rs) ----
    child,       \* the tmux subprocess: "none", "running", "exited", "reaped"
    pc,          \* "idle": no call in progress; "reading": inside command()'s loop;
                 \* "connect", "failed", "dropped": see the life of a client
    command_id,  \* Option<u64> of the call in progress: <<>> is None, <<n>> is Some(n)
    output,      \* Vec<String> of the call in progress
    ret,         \* what the last finished call returned
    ncalls,      \* number of command() calls started on this client
    consumed,    \* history: the raw lines read_line returned to the current call
    nread,       \* history: number of lines read from the transport so far
    srvBlock,    \* tmux server: <<>> between reply blocks, <<k>> inside block k
    srvNext,     \* tmux server: number of the next reply block to open
    \* ---- CommandRunner (git.rs) ----
    dpc,         \* driver thread: position in the closure of CommandRunner::new
    cmd,         \* driver thread: index of the command of the current iteration
    all_success, \* driver thread: the all_success flag
    rdOut,       \* stdout reader thread: its state and the lines it has forwarded
    rdErr,       \* stderr reader thread: its state and the lines it has forwarded
    failedSpawn, \* history: the commands whose spawn failed
    nlines,      \* history: lines the subprocesses have written so far
    chan,        \* the mpsc channel: events sent and not yet received
    received,    \* history: events try_recv handed to the consumer, in order
    receiver,    \* the receiving end of the channel: "open" or "dropped"
    \* ---- one call of a function of git.rs ----
    input,       \* the arguments of the call and what its environment answers
    call,        \* what the call did and returned; NoCall until it has run
    world        \* the repository: worktree directories and git's records

clientVars == <<child, pc, command_id, output, ret, ncalls, consumed, nread>>
serverVars == <<srvBlock, srvNext>>
runnerVars == <<dpc, cmd, all_success, rdOut, rdErr, failedSpawn, nlines, chan,
               received, receiver>>
callVars == <<input, call, world>>
vars == <<child, pc, command_id, output, ret, ncalls, consumed, nread,
          srvBlock, srvNext,
          dpc, cmd, all_success, rdOut, rdErr, failedSpawn, nlines, chan, received,
          receiver,
          input, call, world>>

----------------------------------------------------------------------------
(* Bounds of the model. *)

\* lines read from the transport over the life of one client
MaxLines == 4
\* command() calls made on one client
MaxCalls == 2

----------------------------------------------------------------------------
(* Strings as character sequences. *)

sBegin == <<"%", "b", "e", "g", "i", "n">>
sEnd   == <<"%", "e", "n", "d">>
sError == <<"%", "e", "r", "r", "o", "r">>
sExit  == <<"%", "e", "x", "i", "t">>
sOutput == <<"%", "o", "u", "t", "p", "u", "t">>
SP == <<" ">>
LF == <<"\n">>
CRLF == <<"\r", "\n">>

Digit == [c \in {"0", "1", "2", "3", "4", "5", "6", "7", "8", "9"} |->
            CASE c = "0" -> 0 [] c = "1" -> 1 [] c = "2" -> 2 [] c = "3" -> 3
              [] c = "4" -> 4 [] c = "5" -> 5 [] c = "6" -> 6 [] c = "7" -> 7
              [] c = "8" -> 8 [] c = "9" -> 9]

IsWhitespace(c) == c \in {" ", "\t", "\n", "\r"}

\* str::starts_with
StartsWith(s, p) == Len(s) >= Len(p) /\ SubSeq(s, 1, Len(p)) = p

\* str::trim_end_matches(['\r', '\n'])
RECURSIVE TrimEnd(_)
TrimEnd(s) ==
    IF s # <<>> /\ s[Len(s)] \in {"\r", "\n"}
    THEN TrimEnd(SubSeq(s, 1, Len(s) - 1))
    ELSE s

\* str::split_whitespace, collected: the maximal runs of non-whitespace.
RECURSIVE SplitFrom(_, _, _)
SplitFrom(s, i, cur) ==
    IF i > Len(s)
    THEN IF cur = <<>> THEN <<>> ELSE <<cur>>
    ELSE IF IsWhitespace(s[i])
         THEN IF cur = <<>> THEN SplitFrom(s, i + 1, <<>>)
              ELSE <<cur>> \o SplitFrom(s, i + 1, <<>>)
         ELSE SplitFrom(s, i + 1, Append(cur, s[i]))

SplitWhitespace(s) == SplitFrom(s, 1, <<>>)

\* The value of a string of decimal digits.
RECURSIVE DigitsValue(_)
DigitsValue(ds) ==
    IF ds = <<>> THEN 0
    ELSE 10 * DigitsValue(SubSeq(ds, 1, Len(ds) - 1)) + Digit[ds[Len(ds)]]

\* str::parse::<u64>: an optional leading '+', then one or more decimal
\* digits.  (The tokens of this model are short; values beyond u64::MAX,
\* which parse rejects, do not occur.)
ParseU64(tok) ==
    LET ds == IF tok # <<>> /\ tok[1] = "+" THEN Tail(tok) ELSE tok
    IN  IF ds # <<>> /\ \A i \in 1..Len(ds) : ds[i] \in DOMAIN Digit
        THEN [ok |-> TRUE, val |-> DigitsValue(ds)]
        ELSE [ok |-> FALSE, val |-> 0]

----------------------------------------------------------------------------
(* parse_command_id (tmux_control.rs): Result<u64>, ok = FALSE for Err.    *)
(* An error message is the literal text of its format string and the      *)
(* arguments put in it.                                                    *)

Msg(text, args) == [text |-> text, args |-> args]

NoMsg == Msg("", <<>>)

parse_command_id(line) ==
    LET parts == SplitWhitespace(line)
        prefix == IF Len(parts) >= 1 THEN parts[1] ELSE <<>>
        malformed == [ok |-> FALSE, val |-> 0,
                      msg |-> Msg("Malformed tmux control line: ", <<line>>)]
    IN  IF ~StartsWith(prefix, <<"%">>) THEN malformed
        ELSE IF Len(parts) < 2 THEN malformed
        ELSE IF Len(parts) < 3 THEN malformed
        ELSE LET id == ParseU64(parts[3])
             IN  IF id.ok THEN [ok |-> TRUE, val |-> id.val, msg |-> NoMsg]
                 ELSE [ok |-> FALSE, val |-> 0,
                       msg |-> Msg("Invalid tmux command id: ", <<line>>)]

----------------------------------------------------------------------------
(* ControlClient::command (tmux_control.rs): one iteration of its loop.    *)
(* An iteration yields ctl = "continue", "break" (leave the loop, the call *)
(* returns Ok(output)) or "bail" (the call returns Err(msg)).              *)

None == <<>>
Some(n) == <<n>>

Iter(ctl, cid, out, msg) ==
    [ctl |-> ctl, command_id |-> cid, output |-> out, msg |-> msg]



\* Mutant: end of file taken for the end of the reply.
OnEof_EndsReply(cid, out) == Iter("break", cid, out, NoMsg)

\* bytes == 0
OnEof(cid, out) ==
    Iter("bail", cid, out, Msg("tmux control mode closed unexpectedly", <<>>))

\* Mutant: %exit is fatal only while no %begin has been captured.
OnExit_OnlyBeforeBegin(cid, out, trimmed) ==
    IF cid = None
    THEN Iter("bail", cid, out, Msg("tmux control mode exited unexpectedly", <<>>))
    ELSE Iter("continue", cid, out, NoMsg)

\* trimmed.starts_with("%exit")
OnExit(cid, out, trimmed) ==
    Iter("bail", cid, out, Msg("tmux control mode exited unexpectedly", <<>>))

\* Mutant: %error closes the reply block like %end does.
OnError_EndsReply(cid, out, trimmed) ==
    IF cid # None THEN Iter("break", cid, out, NoMsg)
    ELSE Iter("bail", cid, out, Msg("tmux control error: ", <<trimmed>>))

\* trimmed.starts_with("%error")
OnError(cid, out, trimmed) ==
    Iter("bail", cid, out, Msg("tmux control error: ", <<trimmed>>))

\* parse_command_id(trimmed)? propagates the error
ParseFault(cid, out, r) == Iter("bail", cid, out, r.msg)

\* trimmed.starts_with("%begin")
OnBegin(cid, out, trimmed) ==
    IF cid = None
    THEN LET r == parse_command_id(trimmed)
         IN  IF r.ok THEN Iter("continue", Some(r.val), out, NoMsg)
             ELSE ParseFault(cid, out, r)
    ELSE Iter("continue", cid, out, NoMsg)

\* Mutant: any well-formed %end completes the reply.
OnEnd_AnyIdentifier(cid, out, trimmed) ==
    IF cid # None
    THEN LET r == parse_command_id(trimmed)
         IN  IF ~r.ok THEN ParseFault(cid, out, r)
             ELSE Iter("break", cid, out, NoMsg)
    ELSE Iter("continue", cid, out, NoMsg)

\* Mutant: the comparison of the identifiers is inverted.
OnEnd_InvertedMatch(cid, out, trimmed) ==
    IF cid # None
    THEN LET r == parse_command_id(trimmed)
         IN  IF ~r.ok THEN ParseFault(cid, out, r)
             ELSE IF r.val # cid[1] THEN Iter("break", cid, out, NoMsg)
             ELSE Iter("continue", cid, out, NoMsg)
    ELSE Iter("continue", cid, out, NoMsg)

\* trimmed.starts_with("%end")
OnEnd(cid, out, trimmed) ==
    IF cid # None
    THEN LET r == parse_command_id(trimmed)
         IN  IF ~r.ok THEN ParseFault(cid, out, r)
             ELSE IF r.val = cid[1] THEN Iter("break", cid, out, NoMsg)
             ELSE Iter("continue", cid, out, NoMsg)
    ELSE Iter("continue", cid, out, NoMsg)

\* Mutant: lines read before the %begin are kept too.
OnOther_KeepsEarlyLines(cid, out, trimmed) ==
    IF StartsWith(trimmed, <<"%">>) THEN Iter("continue", cid, out, NoMsg)
    ELSE Iter("continue", cid, Append(out, trimmed), NoMsg)

\* the rest of the loop body: any other line
OnOther(cid, out, trimmed) ==
    IF cid = None THEN Iter("continue", cid, out, NoMsg)
    ELSE IF StartsWith(trimmed, <<"%">>) THEN Iter("continue", cid, out, NoMsg)
    ELSE Iter("continue", cid, Append(out, trimmed), NoMsg)

\* the loop body for a line read_line returned (bytes > 0)
LoopBody(cid, out, line) ==
    LET trimmed == TrimEnd(line)
    IN  IF StartsWith(trimmed, sExit) THEN OnExit(cid, out, trimmed)
        ELSE IF StartsWith(trimmed, sError) THEN OnError(cid, out, trimmed)
        ELSE IF StartsWith(trimmed, sBegin) THEN OnBegin(cid, out, trimmed)
        ELSE IF StartsWith(trimmed, sEnd) THEN OnEnd(cid, out, trimmed)
        ELSE OnOther(cid, out, trimmed)

----------------------------------------------------------------------------
(* The calls made on one ControlClient. *)

NoRet == [tag |-> "None", lines |-> <<>>, msg |-> NoMsg]
RetOk(lines) == [tag |-> "Ok", lines |-> lines, msg |-> NoMsg]
RetErr(msg) == [tag |-> "Err", lines |-> <<>>, msg |-> msg]

\* The effect of one loop iteration on the call.
Apply(it) ==
    /\ command_id' = it.command_id
    /\ output' = it.output
    /\ IF it.ctl = "continue"
       THEN pc' = "reading" /\ ret' = ret
       ELSE /\ pc' = "idle"
            /\ ret' = IF it.ctl = "break" THEN RetOk(it.output) ELSE RetErr(it.msg)

\* command(): writeln! and flush, then output = Vec::new(), command_id = None.
\* The write fails once the subprocess is gone (its stdin pipe is closed).
CallCommand ==
    /\ pc = "idle"
    /\ ncalls < MaxCalls
    /\ ncalls' = ncalls + 1
    /\ consumed' = <<>>
    /\ command_id' = None
    /\ output' = <<>>
    /\ IF child = "running"
       THEN pc' = "reading" /\ ret' = NoRet
       ELSE pc' = "idle"
            /\ ret' = RetErr(Msg("Failed to write tmux control command", <<>>))
    /\ UNCHANGED <<child, nread>>

\* read_line returns the next line of the transport.
ReadLine(line) ==
    /\ pc = "reading"
    /\ nread' = nread + 1
    /\ consumed' = Append(consumed, line)
    /\ Apply(LoopBody(command_id, output, line))
    /\ UNCHANGED <<child, ncalls>>

\* read_line returns 0 bytes: the subprocess closed its stdout.
ReadEof ==
    /\ pc = "reading"
    /\ child = "exited"
    /\ consumed' = Append(consumed, <<>>)
    /\ Apply(OnEof(command_id, output))
    /\ UNCHANGED <<child, ncalls, nread>>

\* read_line fails (the bytes of the line are not UTF-8): the ? propagates.
ReadFault ==
    /\ pc = "reading"
    /\ nread < MaxLines
    /\ nread' = nread + 1
    /\ consumed' = Append(consumed, <<"<invalid utf-8>">>)
    /\ Apply(Iter("bail", command_id, output,
                  Msg("Failed to read tmux control output", <<>>)))
    /\ UNCHANGED <<child, ncalls>>

\* tmux terminates (the server was killed, the session ended).
ChildExit ==
    /\ child = "running"
    /\ child' = "exited"
    /\ UNCHANGED <<pc, command_id, output, ret, ncalls, consumed, nread>>

----------------------------------------------------------------------------
(* The lines a transport can deliver. *)

RECURSIVE JoinWords(_)
JoinWords(ws) ==
    IF ws = <<>> THEN <<>>
    ELSE IF Len(ws) = 1 THEN ws[1]
    ELSE ws[1] \o SP \o JoinWords(Tail(ws))

\* A line as read_line returns it: the words, then the line terminator.
Ln(ws) == JoinWords(ws) \o LF

DigitChar(k) == <<"0", "1", "2", "3", "4", "5", "6", "7", "8", "9">>[k + 1]

TS == <<"9">>

\* Any server at all: well-formed and malformed markers, mismatched
\* identifiers, notifications and plain lines, in any order.
AnyLines ==
    { Ln(<<<<"a">>>>),
      JoinWords(<<<<"b">>>>) \o CRLF,
      Ln(<<sOutput, <<"x">>>>),
      Ln(<<sBegin, TS, <<"1">>, <<"1">>>>),
      Ln(<<sBegin, TS, <<"2">>, <<"1">>>>),
      Ln(<<sEnd, TS, <<"1">>, <<"1">>>>),
      Ln(<<sEnd, TS, <<"2">>, <<"1">>>>),
      Ln(<<sEnd, TS, <<"0", "1">>>>),
      Ln(<<sError, TS, <<"1">>, <<"1">>>>),
      Ln(<<sError, TS, <<"2">>, <<"1">>>>),
      Ln(<<sExit>>),
      Ln(<<sBegin, TS>>),
      Ln(<<sEnd>>),
      Ln(<<sEnd, TS, <<"x">>>>) }

----------------------------------------------------------------------------
(* tmux in control mode, as the protocol describes it: reply blocks, one   *)
(* after the other and never nested, numbered in increasing order, each    *)
(* closed by %end or %error with the number of its %begin; notifications   *)
(* anywhere.  Block k > 0 is the reply to the k-th command; block 0 is a   *)
(* block no command asked for.  The pipe is not timed: a block may already *)
(* be in it when the client gets to read.                                  *)

\* reply blocks the server produces (besides block 0)
MaxBlocks == 2
\* lines read from a tmux server over the life of one client
MaxTmuxLines == 7

BeginLine(k) == Ln(<<sBegin, TS, <<DigitChar(k)>>, <<"1">>>>)
EndLine(k) == Ln(<<sEnd, TS, <<DigitChar(k)>>, <<"1">>>>)
ErrorLine(k) == Ln(<<sError, TS, <<DigitChar(k)>>, <<"1">>>>)
\* a line of the output of command k
OutLine(k) == Ln(<<<<"o", DigitChar(k)>>>>)
NotifyLine == Ln(<<sOutput, <<"x">>>>)

TmuxOpens ==
    /\ srvBlock = None
    /\ srvNext <= MaxBlocks
    /\ srvBlock' = Some(srvNext)
    /\ srvNext' = srvNext + 1

TmuxCloses ==
    /\ srvBlock # None
    /\ srvBlock' = None
    /\ srvNext' = srvNext

----------------------------------------------------------------------------
(* CommandRunner::new (git.rs): the driver thread, the two reader threads  *)
(* of the command being run, and the consumer polling try_recv.            *)

\* commands given to the runner
NumCmds == 2
\* lines the subprocesses write, over the whole run
MaxRunLines == 3

Event(type, k, success, src, idx) ==
    [type |-> type, cmd |-> k, success |-> success, src |-> src, idx |-> idx]

CommandStarted(k) == Event("CommandStarted", k, TRUE, "", 0)
\* src: "stdout" or "stderr" with the line's position in that stream, or
\* "spawn" for the line that reports a failure to start
Line(k, src, idx) == Event("Line", k, TRUE, src, idx)
CommandFinished(k, success) == Event("CommandFinished", k, success, "", 0)
AllDone(success) == Event("AllDone", 0, success, "", 0)

\* Mutant: tx.send(e).unwrap(), which stops the sender once the receiver is
\* gone.
Send_Unwrapped(e) == receiver = "open" /\ chan' = Append(chan, e)

\* let _ = tx.send(e): the channel is unbounded, and a send to a channel
\* whose receiver was dropped returns an Err that is ignored.
Send(e) == chan' = IF receiver = "open" THEN Append(chan, e) ELSE chan

NoReader == [st |-> "none", n |-> 0]

\* for cmd_str in &commands { tx.send(CommandStarted(..))
DriverStarted ==
    /\ dpc = "loop"
    /\ cmd < NumCmds
    /\ cmd' = cmd + 1
    /\ Send(CommandStarted(cmd + 1))
    /\ dpc' = "spawn"
    /\ UNCHANGED <<all_success, rdOut, rdErr, failedSpawn, nlines, received, receiver>>

\* spawn() returned Ok(child): both reader threads are started.
DriverSpawnOk ==
    /\ dpc = "spawn"
    /\ rdOut' = [st |-> "running", n |-> 0]
    /\ rdErr' = [st |-> "running", n |-> 0]
    /\ dpc' = "join_stdout"
    /\ UNCHANGED <<cmd, all_success, failedSpawn, nlines, chan, received, receiver>>

\* Mutant: a failure to spawn is not reported as a line.
DriverSpawnErr_NoLine ==
    /\ dpc = "spawn"
    /\ failedSpawn' = failedSpawn \cup {cmd}
    /\ dpc' = "spawn_failed"
    /\ UNCHANGED <<cmd, all_success, rdOut, rdErr, nlines, chan, received, receiver>>

\* spawn() returned Err(e): tx.send(Line("Failed to start: ..."))
DriverSpawnErr ==
    /\ dpc = "spawn"
    /\ Send(Line(cmd, "spawn", 1))
    /\ failedSpawn' = failedSpawn \cup {cmd}
    /\ dpc' = "spawn_failed"
    /\ UNCHANGED <<cmd, all_success, rdOut, rdErr, nlines, received, receiver>>

\* Mutant: a failure to spawn leaves all_success as it was.
DriverSpawnFailed_KeepsFlag ==
    /\ dpc = "spawn_failed"
    /\ Send(CommandFinished(cmd, FALSE))
    /\ dpc' = "loop"
    /\ UNCHANGED <<cmd, all_success, rdOut, rdErr, failedSpawn, nlines, received, receiver>>

\* ... tx.send(CommandFinished { success: false }); all_success = false; continue
DriverSpawnFailed ==
    /\ dpc = "spawn_failed"
    /\ Send(CommandFinished(cmd, FALSE))
    /\ all_success' = FALSE
    /\ dpc' = "loop"
    /\ UNCHANGED <<cmd, rdOut, rdErr, failedSpawn, nlines, received, receiver>>

\* The stdout reader forwards the next line of the pipe.
StdoutLine ==
    /\ rdOut.st = "running"
    /\ nlines < MaxRunLines
    /\ nlines' = nlines + 1
    /\ Send(Line(cmd, "stdout", rdOut.n + 1))
    /\ rdOut' = [rdOut EXCEPT !.n = @ + 1]
    /\ UNCHANGED <<dpc, cmd, all_success, rdErr, failedSpawn, received, receiver>>

\* The stdout reader's iterator ends: end of file, or a line that fails to
\* read (map_while(Result::ok) stops there); the thread finishes.
StdoutEnd ==
    /\ rdOut.st = "running"
    /\ rdOut' = [rdOut EXCEPT !.st = "finished"]
    /\ UNCHANGED <<dpc, cmd, all_success, rdErr, failedSpawn, nlines, chan, received, receiver>>

StderrLine ==
    /\ rdErr.st = "running"
    /\ nlines < MaxRunLines
    /\ nlines' = nlines + 1
    /\ Send(Line(cmd, "stderr", rdErr.n + 1))
    /\ rdErr' = [rdErr EXCEPT !.n = @ + 1]
    /\ UNCHANGED <<dpc, cmd, all_success, rdOut, failedSpawn, received, receiver>>

StderrEnd ==
    /\ rdErr.st = "running"
    /\ rdErr' = [rdErr EXCEPT !.st = "finished"]
    /\ UNCHANGED <<dpc, cmd, all_success, rdOut, failedSpawn, nlines, chan, received, receiver>>

\* stdout_handle.join() returns once that thread has finished
JoinableStdout == rdOut.st = "finished"
\* Mutant: the driver does not join the stderr reader.
JoinableStderr_NoJoin == TRUE

\* stderr_handle.join() returns once that thread has finished
JoinableStderr == rdErr.st = "finished"

DriverJoinStdout ==
    /\ dpc = "join_stdout"
    /\ JoinableStdout
    /\ dpc' = "join_stderr"
    /\ UNCHANGED <<cmd, all_success, rdOut, rdErr, failedSpawn, nlines, chan, received, receiver>>

DriverJoinStderr ==
    /\ dpc = "join_stderr"
    /\ JoinableStderr
    /\ dpc' = "wait"
    /\ UNCHANGED <<cmd, all_success, rdOut, rdErr, failedSpawn, nlines, chan, received, receiver>>

\* match child.wait() { Ok(status) => status.success(), Err(_) => false }
WaitSuccess(status) == status = "exit zero"

\* child.wait(); tx.send(CommandFinished { success }); if !success { all_success = false }
DriverWait(status) ==
    /\ dpc = "wait"
    /\ Send(CommandFinished(cmd, WaitSuccess(status)))
    /\ all_success' = IF ~WaitSuccess(status) THEN FALSE ELSE all_success
    /\ dpc' = "loop"
    /\ UNCHANGED <<cmd, rdOut, rdErr, failedSpawn, nlines, received, receiver>>

\* after the loop: tx.send(AllDone { success: all_success })
DriverAllDone ==
    /\ dpc = "loop"
    /\ cmd = NumCmds
    /\ Send(AllDone(all_success))
    /\ dpc' = "done"
    /\ UNCHANGED <<cmd, all_success, rdOut, rdErr, failedSpawn, nlines, received, receiver>>

\* try_recv() returns Some(event)
TryRecv ==
    /\ chan # <<>>
    /\ received' = Append(received, Head(chan))
    /\ chan' = Tail(chan)
    /\ UNCHANGED <<dpc, cmd, all_success, rdOut, rdErr, failedSpawn, nlines, receiver>>

\* The closure of the driver thread returns: handle.is_finished() is true
\* from here on.
DriverReturns ==
    /\ dpc = "done"
    /\ dpc' = "finished"
    /\ UNCHANGED <<cmd, all_success, rdOut, rdErr, failedSpawn, nlines, chan,
                   received, receiver>>

\* Mutant: is_running() reads a flag that is cleared when the loop over the
\* commands ends, before AllDone is sent.
is_running_UntilLoopEnds == ~(cmd = NumCmds /\ dpc \in {"loop", "done", "finished"})

\* is_running(): handle.as_ref().map(|h| !h.is_finished()).unwrap_or(false)
is_running == dpc # "finished"

\* The caller drops the CommandRunner: the receiver goes, with the events
\* still queued, and the JoinHandle is detached.
DropRunner ==
    /\ receiver = "open"
    /\ receiver' = "dropped"
    /\ chan' = <<>>
    /\ UNCHANGED <<dpc, cmd, all_success, rdOut, rdErr, failedSpawn, nlines,
                   received>>

----------------------------------------------------------------------------
(* Specifications. *)

InitClient ==
    /\ child = "running"
    /\ pc = "idle"
    /\ command_id = None
    /\ output = <<>>
    /\ ret = NoRet
    /\ ncalls = 0
    /\ consumed = <<>>
    /\ nread = 0

InitRunner ==
    /\ dpc = "loop"
    /\ cmd = 0
    /\ all_success = TRUE
    /\ rdOut = NoReader
    /\ rdErr = NoReader
    /\ failedSpawn = {}
    /\ nlines = 0
    /\ chan = <<>>
    /\ received = <<>>
    /\ receiver = "open"

\* A ControlClient on a transport that may deliver any line.
\* No call of the worktree functions is modelled next to the client and the
\* runner.
InitCall ==
    /\ input = [name |-> "none"] /\ call = [name |-> "none"]
    /\ world = [name |-> "none"]

Init == InitClient /\ srvBlock = None /\ srvNext = 1 /\ InitRunner /\ InitCall

AnyRead ==
    \E line \in AnyLines : nread < MaxLines /\ ReadLine(line)

Next ==
    \/ CallCommand /\ UNCHANGED <<serverVars, runnerVars, callVars>>
    \/ AnyRead /\ UNCHANGED <<serverVars, runnerVars, callVars>>
    \/ nread < MaxLines /\ ReadFault /\ UNCHANGED <<serverVars, runnerVars, callVars>>
    \/ ReadEof /\ UNCHANGED <<serverVars, runnerVars, callVars>>
    \/ ChildExit /\ UNCHANGED <<serverVars, runnerVars, callVars>>

Spec == Init /\ [][Next]_vars

\* A ControlClient connected to tmux; the server may open with block 0.
InitTmux ==
    InitClient /\ srvBlock = None /\ srvNext \in {0, 1} /\ InitRunner /\ InitCall

TmuxBegin ==
    nread < MaxTmuxLines /\ TmuxOpens /\ ReadLine(BeginLine(srvNext))

TmuxOut ==
    /\ nread < MaxTmuxLines /\ srvBlock # None
    /\ ReadLine(OutLine(srvBlock[1])) /\ UNCHANGED serverVars

TmuxEnd ==
    nread < MaxTmuxLines /\ TmuxCloses /\ ReadLine(EndLine(srvBlock[1]))

TmuxError ==
    nread < MaxTmuxLines /\ TmuxCloses /\ ReadLine(ErrorLine(srvBlock[1]))

TmuxNotify ==
    nread < MaxTmuxLines /\ ReadLine(NotifyLine) /\ UNCHANGED serverVars

NextTmux ==
    \/ CallCommand /\ UNCHANGED <<serverVars, runnerVars, callVars>>
    \/ TmuxBegin /\ UNCHANGED <<runnerVars, callVars>>
    \/ TmuxOut /\ UNCHANGED <<runnerVars, callVars>>
    \/ TmuxEnd /\ UNCHANGED <<runnerVars, callVars>>
    \/ TmuxError /\ UNCHANGED <<runnerVars, callVars>>
    \/ TmuxNotify /\ UNCHANGED <<runnerVars, callVars>>
    \/ ReadEof /\ UNCHANGED <<serverVars, runnerVars, callVars>>
    \/ ChildExit /\ UNCHANGED <<serverVars, runnerVars, callVars>>

SpecTmux == InitTmux /\ [][NextTmux]_vars

\* A CommandRunner and its consumer.
NextRunner ==
    \/ DriverStarted /\ UNCHANGED <<clientVars, serverVars, callVars>>
    \/ DriverSpawnOk /\ UNCHANGED <<clientVars, serverVars, callVars>>
    \/ DriverSpawnErr /\ UNCHANGED <<clientVars, serverVars, callVars>>
    \/ DriverSpawnFailed /\ UNCHANGED <<clientVars, serverVars, callVars>>
    \/ StdoutLine /\ UNCHANGED <<clientVars, serverVars, callVars>>
    \/ StdoutEnd /\ UNCHANGED <<clientVars, serverVars, callVars>>
    \/ StderrLine /\ UNCHANGED <<clientVars, serverVars, callVars>>
    \/ StderrEnd /\ UNCHANGED <<clientVars, serverVars, callVars>>
    \/ DriverJoinStdout /\ UNCHANGED <<clientVars, serverVars, callVars>>
    \/ DriverJoinStderr /\ UNCHANGED <<clientVars, serverVars, callVars>>
    \/ (\E status \in {"exit zero", "exit nonzero", "wait error"} :
            DriverWait(status)) /\ UNCHANGED <<clientVars, serverVars, callVars>>
    \/ DriverAllDone /\ UNCHANGED <<clientVars, serverVars, callVars>>
    \/ TryRecv /\ UNCHANGED <<clientVars, serverVars, callVars>>

SpecRunner == Init /\ [][NextRunner]_vars

\* A CommandRunner whose caller may drop it at any moment, up to the return
\* of the driver thread.
NextRunnerLife ==
    \/ NextRunner
    \/ DriverReturns /\ UNCHANGED <<clientVars, serverVars, callVars>>
    \/ DropRunner /\ UNCHANGED <<clientVars, serverVars, callVars>>

SpecRunnerLife == Init /\ [][NextRunnerLife]_vars

\* A step of the driver thread.
DriverStep ==
    \/ DriverStarted \/ DriverSpawnOk \/ DriverSpawnErr \/ DriverSpawnFailed
    \/ DriverJoinStdout \/ DriverJoinStderr
    \/ \E status \in {"exit zero", "exit nonzero", "wait error"} :
            DriverWait(status)
    \/ DriverAllDone \/ DriverReturns

\* The scheduler runs a thread that can take a step, and every subprocess
\* terminates: its pipes reach end of file and wait() returns.  Nothing is
\* assumed of the consumer, nor of the moment the runner is dropped.
RunnerFairness ==
    /\ WF_vars(DriverStep /\ UNCHANGED <<clientVars, serverVars, callVars>>)
    /\ WF_vars(StdoutEnd /\ UNCHANGED <<clientVars, serverVars, callVars>>)
    /\ WF_vars(StderrEnd /\ UNCHANGED <<clientVars, serverVars, callVars>>)

SpecRunnerFair == Init /\ [][NextRunnerLife]_vars /\ RunnerFairness

----------------------------------------------------------------------------
(* The life of a ControlClient (tmux_control.rs): connect spawns the tmux  *)
(* subprocess and takes its pipes, the client serves command calls, and    *)
(* Drop kills the subprocess and waits for it.  A std::process::Child has  *)
(* no destructor of its own: one that goes out of scope is neither killed  *)
(* nor reaped.  pc is "connect" before the call of connect, "failed" when  *)
(* connect returned Err, and "dropped" when the client was discarded;      *)
(* child is "none" while no process was spawned and "reaped" once waited   *)
(* on.                                                                     *)

\* ControlClient::connect; `spawn`, `stdin` and `stdout` are what
\* Command::spawn and the two take() calls return.
connect(spawn, stdin, stdout) ==
    IF spawn = "Err"
    THEN [child |-> "none", pc |-> "failed",
          ret |-> RetErr(Msg("Failed to spawn tmux control client", <<>>))]
    ELSE IF stdin = None
    THEN [child |-> "running", pc |-> "failed",
          ret |-> RetErr(Msg("Failed to open tmux control stdin", <<>>))]
    ELSE IF stdout = None
    THEN [child |-> "running", pc |-> "failed",
          ret |-> RetErr(Msg("Failed to open tmux control stdout", <<>>))]
    ELSE [child |-> "running", pc |-> "idle", ret |-> NoRet]

Connect ==
    /\ pc = "connect"
    /\ \E spawn \in {"Ok", "Err"}, stdin \in {None, Some(0)},
          stdout \in {None, Some(1)} :
          LET c == connect(spawn, stdin, stdout)
          IN  child' = c.child /\ pc' = c.pc /\ ret' = c.ret
    /\ UNCHANGED <<command_id, output, ncalls, consumed, nread>>

\* Drop for ControlClient: kill, then wait, both results ignored.
DropClient ==
    /\ pc = "idle"
    /\ pc' = "dropped"
    /\ child' = "reaped"
    /\ UNCHANGED <<command_id, output, ret, ncalls, consumed, nread>>

InitLife ==
    /\ child = "none" /\ pc = "connect" /\ command_id = None
    /\ output = <<>> /\ ret = NoRet /\ ncalls = 0 /\ consumed = <<>>
    /\ nread = 0
    /\ srvBlock = None /\ srvNext \in {0, 1} /\ InitRunner /\ InitCall

NextLife ==
    \/ Connect /\ UNCHANGED <<serverVars, runnerVars, callVars>>
    \/ DropClient /\ UNCHANGED <<serverVars, runnerVars, callVars>>
    \/ NextTmux

SpecLife == InitLife /\ [][NextLife]_vars

----------------------------------------------------------------------------
(* The worktree orchestrator of git.rs.  A function is modelled as an      *)
(* operator from the arguments of a call and the answers of its            *)
(* environment (the subprocesses it spawns, the file system) to what the   *)
(* call did and what it returned.                                          *)

NoCall == [name |-> "none"]

\* The call has not run yet / has run.
Pending(f) == input.name = f /\ call = NoCall
Returned(f) == call.name = f

\* Everything but the call stays as it is.
OnlyCall == UNCHANGED <<clientVars, serverVars, runnerVars, input, world>>

----------------------------------------------------------------------------
(* run_post_create_commands: the blocking variant of the command runner. *)

\* post_create commands of one project
MaxPostCreate == 4

\* How Command::status() of `sh -c <command>` can end: with an exit status
\* that is success, with one that is not, or with an io::Error (the shell
\* could not be spawned, the working directory is gone, ...).
ShStatus == {"exit zero", "exit nonzero", "spawn error"}

\* The for loop from its k-th iteration on.  started: the commands announced
\* on stdout; ran: those whose status() returned a status; warned: those a
\* warning was printed for.
RECURSIVE PostCreateLoop(_, _, _)
PostCreateLoop(sh, k, st) ==
    IF k > Len(sh) THEN [st EXCEPT !.result = "Ok"]
    ELSE LET announced == [st EXCEPT !.started = Append(@, k)]
         IN  IF sh[k] = "spawn error"
             THEN [announced EXCEPT !.result = "Err"]
             ELSE PostCreateLoop(sh, k + 1,
                    [announced EXCEPT
                        !.ran = Append(@, k),
                        !.warned = IF sh[k] = "exit nonzero"
                                   THEN Append(@, k) ELSE @])

run_post_create_commands(in) ==
    LET st == [name |-> "run_post_create_commands", started |-> <<>>,
               ran |-> <<>>, warned |-> <<>>, result |-> "Ok"]
    IN  IF in.worktree THEN PostCreateLoop(in.sh, 1, st) ELSE st

\* A project without a worktree section, or one with up to MaxPostCreate
\* commands, each ending in one of the three ways.
PostCreateInputs ==
    {[name |-> "run_post_create_commands", worktree |-> FALSE, sh |-> <<>>]}
    \cup UNION {
        {[name |-> "run_post_create_commands", worktree |-> TRUE, sh |-> sh] :
            sh \in [1..n -> ShStatus]} : n \in 0..MaxPostCreate}

RunPostCreate ==
    /\ Pending("run_post_create_commands")
    /\ call' = run_post_create_commands(input)
    /\ OnlyCall

InitPostCreate ==
    /\ InitClient /\ srvBlock = None /\ srvNext = 1 /\ InitRunner
    /\ input \in PostCreateInputs /\ call = NoCall /\ world = [name |-> "none"]

NextPostCreate == RunPostCreate

SpecPostCreate == InitPostCreate /\ [][NextPostCreate]_vars

----------------------------------------------------------------------------
(* The repository the orchestrator works on: the worktree directories that *)
(* exist under {worktree_base}/{project}, and git's own records.           *)

\* str::replace(from, to), for one-character patterns
Replace(s, from, to) == [i \in 1..Len(s) |-> IF s[i] = from THEN to ELSE s[i]]

\* str::contains
Contains(s, p) == \E i \in 0..(Len(s) - Len(p)) : SubSeq(s, i + 1, i + Len(p)) = p

\* str::trim
RECURSIVE TrimStart(_)
TrimStart(s) ==
    IF s # <<>> /\ IsWhitespace(s[1]) THEN TrimStart(Tail(s)) ELSE s

RECURSIVE TrimEndWs(_)
TrimEndWs(s) ==
    IF s # <<>> /\ IsWhitespace(s[Len(s)])
    THEN TrimEndWs(SubSeq(s, 1, Len(s) - 1)) ELSE s

Trim(s) == TrimEndWs(TrimStart(s))

\* Path::join of a relative component
PathJoin(a, b) == a \o <<"/">> \o b

\* The global worktree_base, the project's name and its root.
worktree_base == <<"/", "w">>
project_name == <<"p">>
project_root == <<"/", "r">>

\* The branches calls are made for; "m" is the branch checked out in the
\* project root.
bSlash == <<"f", "/", "x">>
bDash == <<"f", "-", "x">>
bMain == <<"m">>
Branches == {bSlash, bDash, bMain}

\* {worktree_base}/{project}/{branch with '/' replaced by '-'}
WorktreePath(branch) ==
    PathJoin(PathJoin(worktree_base, project_name), Replace(branch, "/", "-"))

\* What git writes to stderr when it exits non-zero.
errFatal == <<"f", "a", "t", "a", "l", ":", " ", "n", "o", "\n">>
errNotFound ==
    <<"e", "r", "r", "o", "r", ":", " ", "b", "r", "a", "n", "c", "h", " ",
      "n", "o", "t", " ", "f", "o", "u", "n", "d", ".", "\n">>
errCheckedOut ==
    <<"e", "r", "r", "o", "r", ":", " ", "c", "h", "e", "c", "k", "e", "d",
      " ", "o", "u", "t", "\n">>

\* One subprocess the call spawned: its arguments and how it ended.
GitRun(sub, opts, args, status, stderr) ==
    [cmd |-> sub, opts |-> opts, args |-> args, status |-> status,
     stderr |-> stderr]

\* A branch some worktree git knows of has checked out.
CheckedOut(w, branch) == \E t \in w.worktrees : t.branch = branch

Registered(w, path) == \E t \in w.worktrees : t.path = path

\* `git rev-parse --verify <ref>` exits zero exactly when the ref resolves.
originPrefix == <<"o", "r", "i", "g", "i", "n", "/">>
Resolves(w, ref) ==
    \/ ref \in w.heads
    \/ /\ StartsWith(ref, originPrefix)
       /\ SubSeq(ref, Len(originPrefix) + 1, Len(ref)) \in w.remotes

\* `git worktree add [-b <branch>] <path> [<branch>]` can succeed when the
\* path is free and unregistered and the branch is not checked out
\* elsewhere; with -b the branch must be new, without it the branch must
\* exist locally or on the remote (git then creates the tracking branch).
CanAdd(w, newBranch, path, branch) ==
    /\ path \notin w.dirs
    /\ ~Registered(w, path)
    /\ ~CheckedOut(w, branch)
    /\ IF newBranch THEN branch \notin w.heads
       ELSE branch \in w.heads \cup w.remotes

Added(w, path, branch) ==
    [w EXCEPT !.dirs = @ \cup {path},
              !.worktrees = @ \cup {[path |-> path, branch |-> branch]},
              !.heads = @ \cup {branch}]

\* `git worktree remove --force <path>` can succeed for a registered
\* worktree whose directory is there.
CanRemove(w, path) == path \in w.dirs /\ Registered(w, path)

Removed(w, path) ==
    [w EXCEPT !.dirs = @ \ {path},
              !.worktrees = {t \in @ : t.path # path}]

\* `git worktree prune` forgets the worktrees whose directory is gone.
Pruned(w) ==
    [w EXCEPT !.worktrees = {t \in @ : t.path = project_root \/ t.path \in w.dirs}]

\* A repository with its root checked out on "m", no worktree yet, and any
\* of these branches.
Repositories ==
    [dirs : {{}}, parent : {FALSE},
     worktrees : {{[path |-> project_root, branch |-> bMain]}},
     heads : {{bMain}, {bMain, bDash}}, remotes : {{}, {bSlash}}]

\* The state of a call in progress.
Begin(f, w, branch) ==
    [name |-> f, branch |-> branch, path |-> WorktreePath(branch),
     before |-> w, world |-> w, git |-> <<>>, fsops |-> <<>>,
     installed |-> <<>>, warnings |-> <<>>, result |-> "Ok", error |-> NoMsg]

Fail(st, msg) == [st EXCEPT !.result = "Err", !.error = msg]

Spawned(st, run) == [st EXCEPT !.git = Append(@, run)]

----------------------------------------------------------------------------
(* create_worktree *)

\* How a subprocess can end; an "exit zero" the repository does not allow is
\* an "exit nonzero".
GitStatus == {"exit zero", "exit nonzero", "spawn error"}
Decided(answer, can) ==
    IF answer = "exit zero" /\ ~can THEN "exit nonzero" ELSE answer

\* `git rev-parse --verify <ref>`
RevParse(w, ref, spawns) ==
    GitRun("rev-parse", <<"--verify">>, <<ref>>,
           IF ~spawns THEN "spawn error"
           ELSE IF Resolves(w, ref) THEN "exit zero" ELSE "exit nonzero",
           <<>>)

\* check_branch_exists with the remote probe left out.
check_branch_exists_LocalOnly(w, branch, probe) ==
    LET local == RevParse(w, branch, probe # "local spawn error")
    IN  [runs |-> <<local>>, ok |-> local.status # "spawn error",
         exists |-> local.status = "exit zero"]

\* The local probe, and the remote one when the local one exits non-zero.
check_branch_exists(w, branch, probe) ==
    LET local == RevParse(w, branch, probe # "local spawn error")
        remote == RevParse(w, originPrefix \o branch, probe # "remote spawn error")
    IN  IF local.status = "spawn error"
        THEN [runs |-> <<local>>, ok |-> FALSE, exists |-> FALSE]
        ELSE IF local.status = "exit zero"
        THEN [runs |-> <<local>>, ok |-> TRUE, exists |-> TRUE]
        ELSE IF remote.status = "spawn error"
        THEN [runs |-> <<local, remote>>, ok |-> FALSE, exists |-> FALSE]
        ELSE [runs |-> <<local, remote>>, ok |-> TRUE,
              exists |-> remote.status = "exit zero"]

\* The `git worktree add` of create_worktree, from what the probes said.
WorktreeAdd(w, branch_exists, path, branch, answer) ==
    GitRun("worktree add",
           IF branch_exists THEN <<>> ELSE <<"-b">>,
           IF branch_exists THEN <<path, branch>> ELSE <<branch, path>>,
           Decided(answer, CanAdd(w, ~branch_exists, path, branch)),
           IF Decided(answer, CanAdd(w, ~branch_exists, path, branch)) = "exit nonzero"
           THEN errFatal ELSE <<>>)

\* The target path is never looked at.
AlreadyExists_Unchecked(w, path) == FALSE

\* worktree_path.exists()
AlreadyExists(w, path) == path \in w.dirs

\* The project's copy list followed by its symlink list.
InstallSteps ==
    << [how |-> "copy", rel |-> "env"], [how |-> "copy", rel |-> "conf"],
       [how |-> "symlink", rel |-> "mod"] >>

\* What the file system answers at one entry: the source is not there, the
\* entry is copied or linked, or the copy or link fails.
InstallAnswer == {"absent", "ok", "io error"}

\* A failed entry undoes the worktree.
OnInstallError_RollsBack(st, k) ==
    Fail([st EXCEPT !.installed = Append(@, [step |-> k, done |-> FALSE]),
                    !.world = Removed(@, st.path)],
         Msg("Failed to copy or link {}", <<InstallSteps[k].rel>>))

\* `?` on copy_path_preserve_symlinks / create_symlink
OnInstallError(st, k) ==
    Fail([st EXCEPT !.installed = Append(@, [step |-> k, done |-> FALSE])],
         Msg("Failed to copy or link {}", <<InstallSteps[k].rel>>))

\* The two for loops over the copy and the symlink entries, from entry k on.
RECURSIVE Install(_, _, _)
Install(st, fs, k) ==
    IF k > Len(InstallSteps) THEN st
    ELSE IF fs[k] = "absent" THEN Install(st, fs, k + 1)
    ELSE IF fs[k] = "io error" THEN OnInstallError(st, k)
    ELSE Install([st EXCEPT !.installed = Append(@, [step |-> k, done |-> TRUE])],
                 fs, k + 1)

create_worktree(w, branch, env) ==
    LET s0 == Begin("create_worktree", w, branch)
        path == s0.path
    IN  IF env.config = "error"
        THEN Fail(s0, Msg("GlobalConfig::load failed", <<>>))
        ELSE IF AlreadyExists(w, path)
        THEN Fail(s0, Msg("Worktree already exists at {}", <<path>>))
        ELSE IF ~w.parent /\ env.mkdir = "io error"
        THEN Fail([s0 EXCEPT !.fsops = <<"create_dir_all">>],
                  Msg("Failed to create directory: {}",
                      <<PathJoin(worktree_base, project_name)>>))
        ELSE
        LET s1 == [s0 EXCEPT !.fsops = <<"create_dir_all">>,
                             !.world.parent = TRUE]
            probe == check_branch_exists(s1.world, branch, env.probe)
            s2 == [s1 EXCEPT !.git = probe.runs]
        IN  IF ~probe.ok THEN Fail(s2, Msg("io error", <<>>))
            ELSE
            LET add == WorktreeAdd(s2.world, probe.exists, path, branch, env.add)
                s3 == Spawned(s2, add)
            IN  IF add.status = "spawn error"
                THEN Fail(s3, Msg("Failed to create git worktree", <<>>))
                ELSE IF add.status = "exit nonzero"
                THEN Fail(s3, Msg("git worktree add failed: {}", <<Trim(add.stderr)>>))
                ELSE Install([s3 EXCEPT !.world = Added(@, path, branch)],
                             env.install, 1)

\* What the environment answers to one call.  A call that has failed asks
\* nothing more, so the answers after a fatal one are left at their default.
CreateEnv ==
    LET fine == [config |-> "loaded", mkdir |-> "ok", probe |-> "ran",
                 add |-> "exit zero",
                 install |-> [k \in 1..Len(InstallSteps) |-> "ok"]]
    IN  {[fine EXCEPT !.config = "error"], [fine EXCEPT !.mkdir = "io error"]}
        \cup {[fine EXCEPT !.probe = p] :
                p \in {"local spawn error", "remote spawn error"}}
        \cup {[fine EXCEPT !.add = a] : a \in GitStatus}
        \cup {[fine EXCEPT !.install = f] :
                f \in [1..Len(InstallSteps) -> InstallAnswer]}

----------------------------------------------------------------------------
(* delete_worktree *)

sNotFound == <<"n", "o", "t", " ", "f", "o", "u", "n", "d">>

\* `git branch -D <branch>`: git refuses a branch it does not have and one
\* that a worktree has checked out.
BranchD(w, branch, answer) ==
    IF answer = "spawn error"
    THEN GitRun("branch", <<"-D">>, <<branch>>, "spawn error", <<>>)
    ELSE IF branch \notin w.heads
    THEN GitRun("branch", <<"-D">>, <<branch>>, "exit nonzero", errNotFound)
    ELSE IF CheckedOut(w, branch)
    THEN GitRun("branch", <<"-D">>, <<branch>>, "exit nonzero", errCheckedOut)
    ELSE IF answer = "exit nonzero"
    THEN GitRun("branch", <<"-D">>, <<branch>>, "exit nonzero", errFatal)
    ELSE GitRun("branch", <<"-D">>, <<branch>>, "exit zero", <<>>)

\* A branch deletion that git refuses fails the call.
delete_local_branch_Strict(st, answer) ==
    LET run == BranchD(st.world, st.branch, answer)
        s1 == Spawned(st, run)
    IN  IF run.status = "exit zero"
        THEN [s1 EXCEPT !.world.heads = @ \ {st.branch}]
        ELSE Fail(s1, Msg("Failed to delete local branch", <<>>))

delete_local_branch(st, answer) ==
    LET run == BranchD(st.world, st.branch, answer)
        s1 == Spawned(st, run)
    IN  IF run.status = "spawn error"
        THEN Fail(s1, Msg("Failed to delete local branch", <<>>))
        ELSE IF run.status = "exit zero"
        THEN [s1 EXCEPT !.world.heads = @ \ {st.branch}]
        ELSE IF ~Contains(run.stderr, sNotFound)
        THEN [s1 EXCEPT !.warnings =
                Append(@, Msg("Warning: could not delete branch '{}': {}",
                              <<st.branch, Trim(run.stderr)>>))]
        ELSE s1

\* The branch taken when `git worktree remove` exits non-zero:
\* fs::remove_dir_all(..)?, then `git worktree prune` with its result
\* dropped, then the branch deletion.
Fallback(st, env) ==
    IF env.rmdir = "io error" \/ st.path \notin st.world.dirs
    THEN Fail([st EXCEPT !.fsops = Append(@, "remove_dir_all")],
              Msg("Failed to remove worktree directory: {}", <<st.path>>))
    ELSE
    LET s1 == [st EXCEPT !.fsops = Append(@, "remove_dir_all"),
                         !.world.dirs = @ \ {st.path}]
        s2 == Spawned([s1 EXCEPT !.world =
                          IF env.prune = "exit zero" THEN Pruned(@) ELSE @],
                      GitRun("worktree prune", <<>>, <<>>, env.prune, <<>>))
    IN  delete_local_branch(s2, env.branch)

\* !worktree_path.exists()
Missing(w, path) == path \notin w.dirs

delete_worktree(w, branch, env) ==
    LET s0 == Begin("delete_worktree", w, branch)
        path == s0.path
    IN  IF env.config = "error"
        THEN Fail(s0, Msg("GlobalConfig::load failed", <<>>))
        ELSE IF Missing(w, path)
        THEN Fail(s0, Msg("Worktree does not exist at {}", <<path>>))
        ELSE
        LET status == Decided(env.remove, CanRemove(w, path))
            s1 == Spawned(s0, GitRun("worktree remove", <<"--force">>, <<path>>,
                                     status,
                                     IF status = "exit nonzero" THEN errFatal
                                     ELSE <<>>))
        IN  IF status = "spawn error"
            THEN Fail(s1, Msg("Failed to remove git worktree", <<>>))
            ELSE IF status = "exit zero"
            THEN delete_local_branch([s1 EXCEPT !.world = Removed(@, path)],
                                     env.branch)
            ELSE Fallback(s1, env)

DeleteEnv ==
    LET fine == [config |-> "loaded", remove |-> "exit zero", rmdir |-> "ok",
                 prune |-> "exit zero", branch |-> "exit zero"]
    IN  {[fine EXCEPT !.config = "error"],
         [fine EXCEPT !.remove = "spawn error"],
         [fine EXCEPT !.remove = "exit nonzero", !.rmdir = "io error"]}
        \cup {[fine EXCEPT !.branch = b] : b \in GitStatus}
        \cup {[fine EXCEPT !.remove = "exit nonzero", !.prune = p, !.branch = b] :
                p \in GitStatus, b \in GitStatus}

----------------------------------------------------------------------------
(* Calls of create_worktree and delete_worktree on one repository. *)

CreateWorktree ==
    \E branch \in Branches, env \in CreateEnv :
        /\ input' = [name |-> "create_worktree", branch |-> branch]
        /\ call' = create_worktree(world, branch, env)
        /\ world' = call'.world
        /\ UNCHANGED <<clientVars, serverVars, runnerVars>>

DeleteWorktree ==
    \E branch \in Branches, env \in DeleteEnv :
        /\ input' = [name |-> "delete_worktree", branch |-> branch]
        /\ call' = delete_worktree(world, branch, env)
        /\ world' = call'.world
        /\ UNCHANGED <<clientVars, serverVars, runnerVars>>

\* Somebody removes the directory of a worktree by hand.
ManualRemove ==
    \E path \in world.dirs :
        /\ world' = [world EXCEPT !.dirs = @ \ {path}]
        /\ UNCHANGED <<clientVars, serverVars, runnerVars, input, call>>

InitWorktree ==
    /\ InitClient /\ srvBlock = None /\ srvNext = 1 /\ InitRunner
    /\ input = [name |-> "none"] /\ call = NoCall
    /\ world \in Repositories

NextWorktree ==
    \/ CreateWorktree
    \/ DeleteWorktree
    \/ ManualRemove

SpecWorktree == InitWorktree /\ [][NextWorktree]_vars

----------------------------------------------------------------------------
(* list_worktrees *)

\* stanzas in one porcelain listing
MaxStanzas == 3

sWorktree == <<"w", "o", "r", "k", "t", "r", "e", "e", " ">>
sBranch == <<"b", "r", "a", "n", "c", "h", " ">>
sRefsHeads == <<"r", "e", "f", "s", "/", "h", "e", "a", "d", "s", "/">>
sHead == <<"H", "E", "A", "D", " ", "0", "a">>
sDetached == <<"d", "e", "t", "a", "c", "h", "e", "d">>

\* str::strip_prefix: Some(rest) or None
StripPrefix(line, p) ==
    IF StartsWith(line, p) THEN Some(SubSeq(line, Len(p) + 1, Len(line)))
    ELSE None

\* Option::unwrap_or
UnwrapOr(opt, default) == IF opt = None THEN default ELSE opt[1]

\* str::lines: the pieces between line feeds, each without the carriage
\* return that precedes its line feed; what follows the last line feed is a
\* line when it is not empty.
Lines(text) ==
    LET ends == {i \in 1..Len(text) : text[i] = "\n"}
        n == Cardinality(ends)
        End(k) == CHOOSE i \in ends : Cardinality({j \in ends : j <= i}) = k
        Start(k) == IF k = 1 THEN 1 ELSE End(k - 1) + 1
        Piece(k) ==
            IF End(k) > Start(k) /\ text[End(k) - 1] = "\r"
            THEN SubSeq(text, Start(k), End(k) - 2)
            ELSE SubSeq(text, Start(k), End(k) - 1)
        rest == SubSeq(text, Start(n + 1), Len(text))
    IN  [k \in 1..n |-> Piece(k)] \o (IF rest = <<>> THEN <<>> ELSE <<rest>>)

\* Path::components of an absolute path: the names between the slashes.
RECURSIVE SplitPath(_, _)
SplitPath(path, cur) ==
    IF path = <<>> THEN (IF cur = <<>> THEN <<>> ELSE <<cur>>)
    ELSE IF path[1] = "/"
         THEN (IF cur = <<>> THEN <<>> ELSE <<cur>>) \o SplitPath(Tail(path), <<>>)
         ELSE SplitPath(Tail(path), Append(cur, path[1]))

Components(path) == SplitPath(path, <<>>)

\* Path::starts_with: whole components
PathStartsWith(path, base) ==
    LET parts == Components(path)
        stem == Components(base)
    IN  Len(parts) >= Len(stem) /\ SubSeq(parts, 1, Len(stem)) = stem

\* {worktree_base}/{project}
ProjectBase == PathJoin(worktree_base, project_name)

\* if let (Some(path), Some(branch)) = .. { if path.starts_with(..) { push } }
Flush(worktrees, path, branch) ==
    IF path # None /\ branch # None /\ PathStartsWith(path[1], ProjectBase)
    THEN Append(worktrees, [path |-> path[1], branch |-> branch[1]])
    ELSE worktrees

\* The branch read so far survives the next "worktree " line.
OnWorktreeLine_KeepsBranch(st, line) ==
    [worktrees |-> Flush(st.worktrees, st.current_path, st.current_branch),
     current_path |-> StripPrefix(line, sWorktree),
     current_branch |-> st.current_branch]

\* A "worktree " line: both options are taken, the pair is pushed.
OnWorktreeLine(st, line) ==
    [worktrees |-> Flush(st.worktrees, st.current_path, st.current_branch),
     current_path |-> StripPrefix(line, sWorktree),
     current_branch |-> None]

\* A "branch " line
OnBranchLine(st, line) ==
    [st EXCEPT !.current_branch =
        Some(UnwrapOr(StripPrefix(line, sBranch \o sRefsHeads),
                      UnwrapOr(StripPrefix(line, sBranch), <<>>)))]

\* The for loop over stdout.lines(), from line k on.
RECURSIVE ListLoop(_, _, _)
ListLoop(lines, k, st) ==
    IF k > Len(lines) THEN st
    ELSE IF StartsWith(lines[k], sWorktree)
    THEN ListLoop(lines, k + 1, OnWorktreeLine(st, lines[k]))
    ELSE IF StartsWith(lines[k], sBranch)
    THEN ListLoop(lines, k + 1, OnBranchLine(st, lines[k]))
    ELSE ListLoop(lines, k + 1, st)

list_worktrees(in) ==
    LET run == GitRun("worktree list", <<"--porcelain">>, <<>>, in.status, <<>>)
        done == [name |-> "list_worktrees", git |-> <<run>>, result |-> "Ok",
                 worktrees |-> <<>>]
    IN  IF in.config = "error"
        THEN [done EXCEPT !.git = <<>>, !.result = "Err"]
        ELSE IF in.status = "spawn error" THEN [done EXCEPT !.result = "Err"]
        ELSE IF in.status = "exit nonzero" THEN done
        ELSE IF ~in.utf8 THEN [done EXCEPT !.result = "Err"]
        ELSE LET end == ListLoop(Lines(in.stdout), 1,
                            [worktrees |-> <<>>, current_path |-> None,
                             current_branch |-> None])
             IN  [done EXCEPT !.worktrees =
                    Flush(end.worktrees, end.current_path, end.current_branch)]

\* The worktree paths git lists: two under the project's base, the project
\* root, and one under a sibling of the base whose name the base's name is
\* a prefix of.
ListedPaths ==
    {PathJoin(ProjectBase, <<"a">>), PathJoin(ProjectBase, <<"b">>),
     project_root, PathJoin(worktree_base, <<"p", "q">>)}

\* The branch of a stanza: none (detached HEAD), or one of these.
ListedBranches == {None, Some(<<"a">>), Some(bSlash)}

Stanza(path, branch) == [path |-> path, branch |-> branch]

\* `git worktree list --porcelain`: per worktree a "worktree" line, a "HEAD"
\* line, a "branch refs/heads/.." or "detached" line, and an empty line.
RenderStanza(z) ==
    sWorktree \o z.path \o LF \o sHead \o LF
    \o (IF z.branch = None THEN sDetached
        ELSE sBranch \o sRefsHeads \o z.branch[1]) \o LF \o LF

RECURSIVE Porcelain(_)
Porcelain(stanzas) ==
    IF stanzas = <<>> THEN <<>>
    ELSE RenderStanza(Head(stanzas)) \o Porcelain(Tail(stanzas))

Listings ==
    UNION {[1..n -> {Stanza(path, b) : path \in ListedPaths, b \in ListedBranches}] :
            n \in 0..MaxStanzas}

ListInputs ==
    {[name |-> "list_worktrees", config |-> "loaded", status |-> "exit zero",
      utf8 |-> TRUE, stanzas |-> zs, stdout |-> Porcelain(zs)] : zs \in Listings}
    \cup {[name |-> "list_worktrees", config |-> c, status |-> g, utf8 |-> u,
           stanzas |-> <<>>, stdout |-> <<>>] :
            c \in {"loaded", "error"}, g \in GitStatus, u \in BOOLEAN}

ListWorktrees ==
    /\ Pending("list_worktrees")
    /\ call' = list_worktrees(input)
    /\ OnlyCall

InitList ==
    /\ InitClient /\ srvBlock = None /\ srvNext = 1 /\ InitRunner
    /\ input \in ListInputs /\ call = NoCall /\ world = [name |-> "none"]

NextList == ListWorktrees

SpecList == InitList /\ [][NextList]_vars

----------------------------------------------------------------------------
(* copy_path_preserve_symlinks and copy_dir_recursive *)

\* nodes (files, directories, symlinks) in one source tree
MaxNodes == 4

\* The names of directory entries and the targets of symlinks.
Names == {"a", "b"}
Targets == {"../t", "/u"}

NoEntries == [n \in Names |-> None]
File == [kind |-> "file", target |-> "", entries |-> NoEntries]
Symlink(target) == [kind |-> "symlink", target |-> target, entries |-> NoEntries]
Dir(entries) == [kind |-> "dir", target |-> "", entries |-> entries]

RECURSIVE Size(_)
Size(node) ==
    1 + (IF node.entries["a"] = None THEN 0 ELSE Size(node.entries["a"][1]))
      + (IF node.entries["b"] = None THEN 0 ELSE Size(node.entries["b"][1]))

\* The trees of at most n nodes.
RECURSIVE Trees(_)
Trees(n) ==
    IF n <= 0 THEN {}
    ELSE LET below == {None} \cup {Some(t) : t \in Trees(n - 1)}
         IN  {File} \cup {Symlink(t) : t \in Targets}
             \cup {d \in {Dir([m \in Names |-> IF m = "a" THEN ea ELSE eb]) :
                            ea \in below, eb \in below} : Size(d) <= n}

\* The places of the nodes of a tree: the names from the root down.
RECURSIVE Places(_)
Places(node) ==
    {<<>>} \cup UNION {
        IF node.entries[m] = None THEN {}
        ELSE {<<m>> \o q : q \in Places(node.entries[m][1])} : m \in Names}

\* A symlink is copied as the file it points to.
OnSymlink_Dereferenced(src, in) ==
    [ok |-> TRUE, made |-> Some(File)]

\* fs::read_link, then create_symlink(&target, dst): bails off Unix.
OnSymlink(src, in) ==
    IF in.unix THEN [ok |-> TRUE, made |-> Some(Symlink(src.target))]
    ELSE [ok |-> FALSE, made |-> None]

RECURSIVE copy_path_preserve_symlinks(_, _, _)
RECURSIVE CopyEntries(_, _, _, _, _)

\* The for loop of copy_dir_recursive over read_dir, which yields the
\* entries in the order in.order, from its k-th entry on; made is the
\* destination directory so far.
CopyEntries(src, at, in, k, made) ==
    IF k > Len(in.order) THEN [ok |-> TRUE, made |-> Some(made)]
    ELSE LET m == in.order[k]
         IN  IF src.entries[m] = None
             THEN CopyEntries(src, at, in, k + 1, made)
             ELSE LET sub == copy_path_preserve_symlinks(
                                src.entries[m][1], Append(at, m), in)
                      now == [made EXCEPT !.entries[m] = sub.made]
                  IN  IF sub.ok THEN CopyEntries(src, at, in, k + 1, now)
                      ELSE [ok |-> FALSE, made |-> Some(now)]

\* fs::create_dir_all(dst)?, then the loop.
copy_dir_recursive(src, at, in) == CopyEntries(src, at, in, 1, Dir(NoEntries))

\* in.fault: the place where a file-system call of the copy fails, if any.
copy_path_preserve_symlinks(src, at, in) ==
    IF in.fault = Some(at) THEN [ok |-> FALSE, made |-> None]
    ELSE IF src.kind = "symlink" THEN OnSymlink(src, in)
    ELSE IF src.kind = "dir" THEN copy_dir_recursive(src, at, in)
    ELSE [ok |-> TRUE, made |-> Some(File)]

\* A source tree copied to a destination that is not there yet: on Unix or
\* not, without a fault or with one at some node, read_dir yielding the
\* entries in either order.
CopyInputs ==
    UNION {
        {[name |-> "copy_path_preserve_symlinks", src |-> t, unix |-> u,
          fault |-> None, order |-> <<"a", "b">>] : u \in BOOLEAN}
        \cup {[name |-> "copy_path_preserve_symlinks", src |-> t, unix |-> TRUE,
               fault |-> Some(q), order |-> o] :
                q \in Places(t), o \in {<<"a", "b">>, <<"b", "a">>}}
        : t \in Trees(MaxNodes)}

CopyPath ==
    /\ Pending("copy_path_preserve_symlinks")
    /\ LET r == copy_path_preserve_symlinks(input.src, <<>>, input)
       IN  call' = [name |-> "copy_path_preserve_symlinks",
                    result |-> IF r.ok THEN "Ok" ELSE "Err", dst |-> r.made]
    /\ OnlyCall

InitCopy ==
    /\ InitClient /\ srvBlock = None /\ srvNext = 1 /\ InitRunner
    /\ input \in CopyInputs /\ call = NoCall /\ world = [name |-> "none"]

NextCopy == CopyPath

SpecCopy == InitCopy /\ [][NextCopy]_vars

----------------------------------------------------------------------------
(* get_default_branch and merge_branch_to_default *)

sMain == <<"m", "a", "i", "n">>
sMaster == <<"m", "a", "s", "t", "e", "r">>
errConflict == <<"C", "O", "N", "F", "L", "I", "C", "T", "\n">>

\* What `git symbolic-ref refs/remotes/origin/HEAD --short` prints when it
\* exits zero: a branch of origin, or a name without that prefix.
SymbolicRefs ==
    {originPrefix \o sMain \o LF, originPrefix \o <<"d", "e", "v">> \o LF,
     <<"u", "p", "/", "d", "e", "v">> \o LF}

\* The rev-parse probes of "main" and "master", from the k-th on.
RECURSIVE ProbeDefaults(_, _, _)
ProbeDefaults(in, k, runs) ==
    LET candidates == <<sMain, sMaster>>
    IN  IF k > Len(candidates)
        THEN [ok |-> TRUE, branch |-> sMain, runs |-> runs]
        ELSE LET run == GitRun("rev-parse", <<"--verify">>, <<candidates[k]>>,
                               in.probes[k], <<>>)
             IN  IF run.status = "spawn error"
                 THEN [ok |-> FALSE, branch |-> <<>>, runs |-> Append(runs, run)]
                 ELSE IF run.status = "exit zero"
                 THEN [ok |-> TRUE, branch |-> candidates[k],
                       runs |-> Append(runs, run)]
                 ELSE ProbeDefaults(in, k + 1, Append(runs, run))

get_default_branch(in) ==
    LET run == GitRun("symbolic-ref", <<"--short">>,
                      <<<<"r", "e", "f", "s", "/", "r", "e", "m", "o", "t", "e",
                          "s", "/", "o", "r", "i", "g", "i", "n", "/", "H", "E",
                          "A", "D">>>>,
                      in.symref.status, <<>>)
    IN  IF run.status = "spawn error"
        THEN [ok |-> FALSE, branch |-> <<>>, runs |-> <<run>>]
        ELSE IF run.status = "exit zero"
        THEN [ok |-> TRUE,
              branch |-> UnwrapOr(StripPrefix(Trim(in.symref.stdout), originPrefix),
                                  sMain),
              runs |-> <<run>>]
        ELSE ProbeDefaults(in, 1, <<run>>)

\* `git merge <branch>` and what follows it.
MergeStep(st, in) ==
    LET run == GitRun("merge", <<>>, <<in.branch>>, in.merge.status,
                      IF in.merge.status = "exit nonzero" THEN in.merge.stderr
                      ELSE <<>>)
        s1 == [st EXCEPT !.git = Append(@, run)]
    IN  IF run.status = "spawn error"
        THEN [s1 EXCEPT !.result = "Err",
                        !.error = Msg("Failed to merge branch", <<>>)]
        ELSE IF run.status = "exit nonzero"
        THEN [s1 EXCEPT !.result = "Err",
                !.error = Msg("Merge failed: {}. Please resolve conflicts manually in the main repository.",
                              <<Trim(run.stderr)>>)]
        ELSE s1

\* The merge is run whatever the checkout's exit status.
AfterCheckout_MergesAnyway(st, checkout, in) ==
    IF checkout.status = "spawn error"
    THEN [st EXCEPT !.result = "Err",
                    !.error = Msg("Failed to checkout default branch", <<>>)]
    ELSE MergeStep(st, in)

\* `?` and the status test on the checkout, then the merge.
AfterCheckout(st, checkout, in) ==
    IF checkout.status = "spawn error"
    THEN [st EXCEPT !.result = "Err",
                    !.error = Msg("Failed to checkout default branch", <<>>)]
    ELSE IF checkout.status = "exit nonzero"
    THEN [st EXCEPT !.result = "Err",
                    !.error = Msg("Failed to checkout '{}': {}",
                                  <<st.default, Trim(checkout.stderr)>>)]
    ELSE MergeStep(st, in)

merge_branch_to_default(in) ==
    LET d == get_default_branch(in)
        s0 == [name |-> "merge_branch_to_default", default |-> d.branch,
               git |-> d.runs, result |-> "Ok", error |-> NoMsg]
    IN  IF ~d.ok
        THEN [s0 EXCEPT !.result = "Err",
                        !.error = Msg("Failed to get default branch", <<>>)]
        ELSE LET checkout ==
                    GitRun("checkout", <<>>, <<d.branch>>, in.checkout.status,
                           IF in.checkout.status = "exit nonzero"
                           THEN in.checkout.stderr ELSE <<>>)
             IN  AfterCheckout([s0 EXCEPT !.git = Append(@, checkout)],
                               checkout, in)

\* The answers of git to one merge; those asked for after a fatal one are
\* left at their default.
MergeInputs ==
    LET Answers(st) == {[status |-> st, stderr |-> e] : e \in {errFatal, errConflict}}
        quiet == [status |-> "exit zero", stderr |-> errFatal]
        fine == [name |-> "merge_branch_to_default", branch |-> bSlash,
                 symref |-> [status |-> "exit zero",
                             stdout |-> originPrefix \o sMain \o LF],
                 probes |-> <<"exit nonzero", "exit nonzero">>,
                 checkout |-> quiet, merge |-> quiet]
        heads == {[fine EXCEPT !.symref = [status |-> "exit zero", stdout |-> o]] :
                      o \in SymbolicRefs}
                 \cup {[fine EXCEPT !.symref.status = "exit nonzero", !.probes = q] :
                      q \in {<<"exit zero", "exit nonzero">>,
                             <<"exit nonzero", "exit zero">>,
                             <<"exit nonzero", "exit nonzero">>}}
        ends == {<<quiet, quiet>>}
                \cup {<<[quiet EXCEPT !.status = "spawn error"], quiet>>,
                      <<quiet, [quiet EXCEPT !.status = "spawn error"]>>}
                \cup {<<c, quiet>> : c \in Answers("exit nonzero")}
                \cup {<<quiet, m>> : m \in Answers("exit nonzero")}
    IN  {[fine EXCEPT !.symref.status = "spawn error"]}
        \cup {[fine EXCEPT !.symref.status = "exit nonzero", !.probes = q] :
                q \in {<<"spawn error", "exit nonzero">>,
                       <<"exit nonzero", "spawn error">>}}
        \cup {[h EXCEPT !.branch = b, !.checkout = e[1], !.merge = e[2]] :
                h \in heads, b \in Branches, e \in ends}

MergeBranch ==
    /\ Pending("merge_branch_to_default")
    /\ call' = merge_branch_to_default(input)
    /\ OnlyCall

InitMerge ==
    /\ InitClient /\ srvBlock = None /\ srvNext = 1 /\ InitRunner
    /\ input \in MergeInputs /\ call = NoCall /\ world = [name |-> "none"]

NextMerge == MergeBranch

SpecMerge == InitMerge /\ [][NextMerge]_vars

----------------------------------------------------------------------------
(* Properties of ControlClient::command. *)

Last(q) == q[Len(q)]

IsBeginLine(raw) == StartsWith(TrimEnd(raw), sBegin)
IsEndLine(raw) == StartsWith(TrimEnd(raw), sEnd)
IsErrorLine(raw) == StartsWith(TrimEnd(raw), sError)
IsExitLine(raw) == StartsWith(TrimEnd(raw), sExit)
IsPlain(trimmed) == ~StartsWith(trimmed, <<"%">>)

\* The identifier a marker line carries: its third word, as a number.
HasId(raw) ==
    LET parts == SplitWhitespace(TrimEnd(raw))
    IN  Len(parts) >= 3 /\ ParseU64(parts[3]).ok
IdOf(raw) == ParseU64(SplitWhitespace(TrimEnd(raw))[3]).val

\* This step is a read_line that returned a line (or, empty, end of file).
ReadsALine == pc = "reading" /\ Len(consumed') = Len(consumed) + 1
JustRead == Last(consumed')
ReturnsOk == pc' = "idle" /\ ret'.tag = "Ok"
ReturnsErr == pc' = "idle" /\ ret'.tag = "Err"

\* The first %begin the current call read: the one whose identifier it captured.
FirstBegin ==
    CHOOSE b \in 1..Len(consumed) :
        /\ IsBeginLine(consumed[b])
        /\ \A j \in 1..(b - 1) : ~IsBeginLine(consumed[j])

\* C1: a successful call returns, in arrival order, exactly the lines read
\* strictly between the %begin whose identifier was captured and the (first)
\* %end with that identifier, without the %-prefixed ones; nothing read
\* before that %begin is in the result.
C1_OutputIsBlockBody ==
    ret.tag = "Ok" =>
        /\ \E b \in 1..Len(consumed) : IsBeginLine(consumed[b])
        /\ LET b == FirstBegin
               e == Len(consumed)
               body == [i \in 1..(e - 1 - b) |-> TrimEnd(consumed[b + i])]
           IN  /\ b < e
               /\ HasId(consumed[b]) /\ IsEndLine(consumed[e]) /\ HasId(consumed[e])
               /\ IdOf(consumed[e]) = IdOf(consumed[b])
               /\ \A j \in (b + 1)..(e - 1) :
                    ~(IsEndLine(consumed[j]) /\ HasId(consumed[j])
                        /\ IdOf(consumed[j]) = IdOf(consumed[b]))
               /\ ret.lines = SelectSeq(body, IsPlain)

\* A call returned one line of output although a plain line came before the
\* %begin.
C1_Witness ==
    /\ ret.tag = "Ok" /\ Len(ret.lines) = 1
    /\ Len(consumed) = 4
    /\ IsPlain(TrimEnd(consumed[1]))
    /\ IsBeginLine(consumed[2])

\* C2: an %end whose identifier differs from the captured one does not
\* complete the reply: the call goes on reading, and a call returns Ok only
\* on an %end that carries the captured identifier.
C2_MismatchedEndContinues ==
    [][ReadsALine =>
        /\ (command_id # None /\ IsEndLine(JustRead) /\ HasId(JustRead)
                /\ IdOf(JustRead) # command_id[1])
             => (pc' = "reading" /\ ret' = NoRet /\ command_id' = command_id)
        /\ ReturnsOk
             => (command_id # None /\ IsEndLine(JustRead) /\ HasId(JustRead)
                    /\ IdOf(JustRead) = command_id[1])]_vars

\* A call that captured an identifier has read an %end with another one, and
\* is still reading.
C2_Witness ==
    /\ pc = "reading" /\ command_id # None /\ consumed # <<>>
    /\ IsEndLine(Last(consumed)) /\ HasId(Last(consumed))
    /\ IdOf(Last(consumed)) # command_id[1]

\* C3: an %error line with the identifier of the awaited command makes the
\* call return a failure whose message contains that line; never Ok.
C3_ErrorForAwaitedFails ==
    [][(ReadsALine /\ command_id # None /\ IsErrorLine(JustRead)
            /\ HasId(JustRead) /\ IdOf(JustRead) = command_id[1])
        => (ReturnsErr
              /\ \E i \in 1..Len(ret'.msg.args) :
                    ret'.msg.args[i] = TrimEnd(JustRead))]_vars

\* A call failed on the %error of the block it was reading, after it had
\* accumulated output.
C3_Witness ==
    /\ pc = "idle" /\ ret.tag = "Err" /\ command_id # None /\ output # <<>>
    /\ consumed # <<>> /\ IsErrorLine(Last(consumed)) /\ HasId(Last(consumed))
    /\ IdOf(Last(consumed)) = command_id[1]

\* C4: an %exit line read at any point makes the call fail; no call returns
\* Ok after it read %exit.
C4_ExitFails ==
    [][/\ (ReadsALine /\ IsExitLine(JustRead)) => ReturnsErr
       /\ ret'.tag = "Ok" =>
            \A i \in 1..Len(consumed') : ~IsExitLine(consumed'[i])]_vars

\* A call failed on an %exit read between a mismatched %end and the
\* matching one.
C4_Witness ==
    /\ pc = "idle" /\ ret.tag = "Err" /\ command_id # None
    /\ Len(consumed) >= 3 /\ IsExitLine(Last(consumed))
    /\ LET p == consumed[Len(consumed) - 1]
       IN  IsEndLine(p) /\ HasId(p) /\ IdOf(p) # command_id[1]

\* C5: end of file before the matching %end makes the call fail with
\* "closed unexpectedly"; the lines accumulated so far are not returned.
C5_EofFails ==
    [][/\ (ReadsALine /\ JustRead = <<>>)
            => (ReturnsErr
                  /\ ret'.msg.text = "tmux control mode closed unexpectedly")
       /\ ret'.tag = "Ok" => \A i \in 1..Len(consumed') : consumed'[i] # <<>>]_vars

\* A call failed at end of file inside a reply block, with output accumulated.
C5_Witness ==
    /\ pc = "idle" /\ ret.tag = "Err" /\ command_id # None /\ output # <<>>
    /\ consumed # <<>> /\ Last(consumed) = <<>>

\* A %begin or %end line without a timestamp word or an identifier word, or
\* whose identifier is not a non-negative integer.
MalformedMarker(raw) == (IsBeginLine(raw) \/ IsEndLine(raw)) /\ ~HasId(raw)

\* C6: every malformed %begin or %end line read makes the call fail, in any
\* state of the loop.
C6_MalformedMarkerFails ==
    [][(ReadsALine /\ MalformedMarker(JustRead)) => ReturnsErr]_vars

\* A line of the output of reply block k.
IsOutputOf(trimmed, k) == trimmed = TrimEnd(OutLine(k))

\* C7: with two commands sent one after the other, the output of the first
\* command (while it accumulates, and as returned) holds no line of the
\* second command's reply block, whatever notifications are interleaved.
C7_FirstOutputHasNoSecondBlockLine ==
    ncalls = 1 =>
        /\ \A i \in 1..Len(output) : ~IsOutputOf(output[i], 2)
        /\ \A i \in 1..Len(ret.lines) : ~IsOutputOf(ret.lines[i], 2)

\* The second call returned the second block's line, read after a
\* notification inside that block; the first call had returned before.
C7_Witness ==
    /\ ncalls = 2 /\ ret.tag = "Ok" /\ srvNext = 3
    /\ ret.lines = <<TrimEnd(OutLine(2))>>
    /\ \E i \in 1..Len(consumed) : consumed[i] = NotifyLine

----------------------------------------------------------------------------
(* Properties of the CommandRunner's event stream. *)

\* Every event sent so far, in the order the channel carries them.
Log == received \o chan

Positions(e) == {i \in 1..Len(Log) : Log[i] = e}
FinishedAt(i) == Log[i].type = "CommandFinished"

\* C8: every command is started however the earlier ones ended, and AllDone
\* carries success = false exactly if some CommandFinished carried false.
C8_AllStartedAndConjunction ==
    /\ dpc = "done" =>
        /\ \A k \in 1..NumCmds : Positions(CommandStarted(k)) # {}
        /\ Log # <<>> /\ Last(Log).type = "AllDone"
    /\ \A i \in 1..Len(Log) :
        Log[i].type = "AllDone" =>
            (Log[i].success = FALSE
                <=> \E j \in 1..Len(Log) : FinishedAt(j) /\ Log[j].success = FALSE)

\* The first command failed to spawn, the last was run and exited zero, and
\* AllDone(false) was sent.
C8_Witness ==
    /\ dpc = "done" /\ 1 \in failedSpawn /\ NumCmds \notin failedSpawn
    /\ Positions(CommandFinished(NumCmds, TRUE)) # {}
    /\ Positions(AllDone(FALSE)) # {}

\* C9: the events of the commands are sequential and well bracketed:
\* CommandStarted(k), the Lines of k (each stream's lines in the order
\* written), CommandFinished(k), and only then CommandStarted(k + 1).
C9_WellBracketed ==
    /\ \A i, j \in 1..Len(Log) :
        (i < j /\ Log[i].type # "AllDone" /\ Log[j].type # "AllDone") =>
            /\ Log[i].cmd <= Log[j].cmd
            /\ Log[i].cmd = Log[j].cmd =>
                 (Log[j].type # "CommandStarted" /\ Log[i].type # "CommandFinished")
    /\ \A i \in 1..Len(Log) :
        Log[i].type # "AllDone" =>
            /\ Positions(CommandStarted(Log[i].cmd)) # {}
            /\ \A k \in 1..(Log[i].cmd - 1) :
                 \E j \in 1..(i - 1) : FinishedAt(j) /\ Log[j].cmd = k
    /\ \A i \in 1..Len(Log) :
        (Log[i].type = "Line" /\ Log[i].src # "spawn") =>
            Log[i].idx = 1 + Cardinality({j \in 1..(i - 1) :
                /\ Log[j].type = "Line"
                /\ Log[j].cmd = Log[i].cmd
                /\ Log[j].src = Log[i].src})

\* Command 1 wrote to both streams and finished; command 2 was started
\* after it.
C9_Witness ==
    /\ Positions(Line(1, "stdout", 1)) # {}
    /\ Positions(Line(1, "stderr", 1)) # {}
    /\ \E i \in 1..Len(Log) : FinishedAt(i) /\ Log[i].cmd = 1
    /\ Positions(CommandStarted(2)) # {}

\* C10: when spawning command k fails, its events are exactly
\* CommandStarted(k), one synthetic Line, CommandFinished(k, false), next to
\* each other, and what follows is CommandStarted(k + 1) (AllDone after the
\* last command).
C10_SpawnFailureEvents ==
    \A k \in failedSpawn :
        /\ Cardinality({i \in 1..Len(Log) :
                Log[i].type # "AllDone" /\ Log[i].cmd = k}) <= 3
        /\ \E i \in Positions(CommandStarted(k)) :
            /\ Len(Log) >= i + 1 /\ Log[i + 1] = Line(k, "spawn", 1)
            /\ ~(dpc = "spawn_failed" /\ cmd = k) => Len(Log) >= i + 2
            /\ Len(Log) >= i + 2 => Log[i + 2] = CommandFinished(k, FALSE)
            /\ (dpc = "done" \/ cmd > k) => Len(Log) >= i + 3
            /\ Len(Log) >= i + 3 =>
                 Log[i + 3] = IF k < NumCmds THEN CommandStarted(k + 1)
                              ELSE AllDone(FALSE)

\* Command 1 failed to spawn and command 2 was started right after its
\* three events.
C10_Witness ==
    /\ 1 \in failedSpawn
    /\ Len(Log) >= 4
    /\ Log[3] = CommandFinished(1, FALSE)
    /\ Log[4] = CommandStarted(2)

----------------------------------------------------------------------------
(* Properties of the worktree orchestrator. *)

Range(q) == {q[i] : i \in 1..Len(q)}

\* C11: the blocking variant does not abort the sequence on the failure of
\* one command: in whatever way a command fails, the commands after it are
\* still run, and the function returns success.
C11_FailureNeverAborts ==
    Returned("run_post_create_commands") =>
        /\ call.result = "Ok"
        /\ \A k \in 1..Len(input.sh) :
              (\E j \in 1..(k - 1) : input.sh[j] # "exit zero")
                 => k \in Range(call.started)

\* C12: a create_worktree whose target path already exists returns an error
\* without having spawned any subprocess and without having created or
\* changed anything on the file system or in the repository.
C12_ExistingPathFailsFirst ==
    (Returned("create_worktree") /\ call.path \in call.before.dirs) =>
        /\ call.result = "Err"
        /\ call.git = <<>>
        /\ call.fsops = <<>> /\ call.installed = <<>>
        /\ call.world = call.before

\* A create was refused because the directory of an earlier worktree was
\* in its way.
C12_Witness ==
    /\ Returned("create_worktree") /\ call.path \in call.before.dirs
    /\ call.result = "Err"
    /\ call.error = Msg("Worktree already exists at {}", <<call.path>>)

IsWorktreeAdd(run) == run.cmd = "worktree add"
IsProbeOf(run, ref) == run.cmd = "rev-parse" /\ run.args = <<ref>>

\* C13: the local probe comes first and the remote probe is made only when
\* the local one exits non-zero; a create whose probes were answered runs
\* exactly one `git worktree add` (no create runs more than one): without -b,
\* as <path> <branch>, when the branch exists locally or on origin, and as
\* -b <branch> <path> when it exists in neither place.
C13_AddFormFollowsBranchExistence ==
    Returned("create_worktree") =>
        LET b == call.branch
            w == call.before
            log == call.git
            adds == SelectSeq(log, IsWorktreeAdd)
            answered == /\ log # <<>>
                        /\ \A i \in 1..Len(log) :
                             log[i].cmd = "rev-parse" => log[i].status # "spawn error"
        IN  /\ Len(adds) <= 1
            /\ answered => Len(adds) = 1
            /\ log # <<>> => IsProbeOf(log[1], b)
            /\ \A i \in 1..Len(log) :
                 IsProbeOf(log[i], originPrefix \o b)
                    => (i = 2 /\ log[1].status = "exit nonzero")
            /\ Len(adds) = 1 =>
                 /\ adds[1] = Last(log)
                 /\ IF b \in w.heads \cup w.remotes
                    THEN adds[1].opts = <<>> /\ adds[1].args = <<call.path, b>>
                    ELSE adds[1].opts = <<"-b">> /\ adds[1].args = <<b, call.path>>
                 /\ (adds[1].opts = <<>>) <=>
                        \E i \in 1..(Len(log) - 1) : log[i].status = "exit zero"

\* A worktree was created for a branch that only origin has: both probes
\* ran, and the add named the branch without -b.
C13_Witness ==
    /\ Returned("create_worktree") /\ call.result = "Ok"
    /\ call.branch \notin call.before.heads
    /\ call.branch \in call.before.remotes
    /\ Len(call.git) = 3 /\ call.git[3].opts = <<>>

Ran(sub) == \E i \in 1..Len(call.git) : call.git[i].cmd = sub
RunOf(sub) == call.git[CHOOSE i \in 1..Len(call.git) : call.git[i].cmd = sub]

\* C14: a delete_worktree for a worktree git still has registered, but whose
\* directory was removed by hand, succeeds through the file-system fallback.
C14_ManuallyRemovedStillDeletes ==
    (/\ Returned("delete_worktree")
     /\ Registered(call.before, call.path)
     /\ call.path \notin call.before.dirs
     /\ call.error.text # "GlobalConfig::load failed")
        => call.result = "Ok"

\* C15: once the worktree is removed, no exit status of `git branch -D`
\* changes the result: the delete returns Ok; a non-zero exit whose stderr
\* contains "not found" prints nothing, any other non-zero exit prints one
\* warning with git's stderr.
C15_BranchDeletionNeverFails ==
    (Returned("delete_worktree") /\ Ran("branch")
        /\ RunOf("branch").status # "spawn error") =>
        LET run == RunOf("branch")
        IN  /\ run = Last(call.git)
            /\ call.path \notin call.world.dirs
            /\ call.result = "Ok"
            /\ IF run.status = "exit nonzero" /\ ~Contains(run.stderr, sNotFound)
               THEN /\ Len(call.warnings) = 1
                    /\ call.warnings[1].args = <<call.branch, Trim(run.stderr)>>
               ELSE call.warnings = <<>>

\* A delete returned Ok with a warning: git refused to delete the branch
\* for another reason than its absence.
C15_Witness ==
    /\ Returned("delete_worktree") /\ Ran("branch")
    /\ RunOf("branch").status = "exit nonzero"
    /\ call.result = "Ok" /\ call.warnings # <<>>

\* C16: when `git worktree remove --force` exits non-zero, the directory
\* tree is removed and `git worktree prune` is run, errors of both ignored,
\* and the local branch is then deleted; when it exits zero, neither the
\* directory removal nor the prune is run.
C16_FallbackIsBestEffort ==
    (Returned("delete_worktree") /\ Ran("worktree remove")) =>
        /\ RunOf("worktree remove").status = "exit nonzero" =>
              /\ call.fsops = <<"remove_dir_all">>
              /\ Ran("worktree prune")
              /\ Ran("branch")
        /\ RunOf("worktree remove").status = "exit zero" =>
              /\ call.fsops = <<>>
              /\ ~Ran("worktree prune")
              /\ Ran("branch")

\* C19: when a copy or symlink entry fails after `git worktree add`
\* succeeded, create_worktree returns an error, no later entry is processed,
\* and the worktree stays: its directory and git's record of it are as the
\* add left them.
C19_InstallFailureLeavesWorktree ==
    (Returned("create_worktree")
        /\ \E i \in 1..Len(call.installed) : ~call.installed[i].done) =>
        /\ call.result = "Err"
        /\ \A i \in 1..Len(call.installed) :
              ~call.installed[i].done => i = Len(call.installed)
        /\ \A i \in 1..(Len(call.installed) - 1) :
              call.installed[i].step < call.installed[i + 1].step
        /\ IsWorktreeAdd(Last(call.git)) /\ Last(call.git).status = "exit zero"
        /\ call.path \in call.world.dirs
        /\ [path |-> call.path, branch |-> call.branch] \in call.world.worktrees
        /\ call.world =
              Added([call.before EXCEPT !.parent = TRUE], call.path, call.branch)

\* The first copy entry was copied and the second failed, so the symlink
\* entry was not reached; the create returned an error and the worktree
\* is there.
C19_Witness ==
    /\ Returned("create_worktree") /\ call.result = "Err"
    /\ Len(call.installed) = 2
    /\ call.installed[1].done /\ ~call.installed[2].done
    /\ call.installed[2].step < Len(InstallSteps)
    /\ call.path \in world.dirs

\* The records the listing should give: per stanza, in order, its own path
\* and branch, when it has a branch and its path lies under the base.
RECURSIVE Expected(_)
Expected(stanzas) ==
    IF stanzas = <<>> THEN <<>>
    ELSE LET z == Head(stanzas)
             parts == Components(z.path)
             under == Len(parts) >= 3 /\ parts[1] = <<"w">> /\ parts[2] = <<"p">>
         IN  (IF z.branch # None /\ under
              THEN <<[path |-> z.path, branch |-> z.branch[1]]>> ELSE <<>>)
             \o Expected(Tail(stanzas))

\* C17: for a porcelain listing made of "worktree <path>" stanzas,
\* list_worktrees returns, in the order of the listing, one record per
\* stanza that has a branch line and whose path is under
\* {worktree_base}/{project}, each with the path and the branch
\* (refs/heads/ stripped) of that same stanza; other stanzas give no record
\* and lend nothing to a neighbour, and the last stanza is not lost.
C17_OneRecordPerOwnStanza ==
    (Returned("list_worktrees") /\ input.status = "exit zero"
        /\ input.config = "loaded" /\ input.utf8) =>
        /\ call.result = "Ok"
        /\ call.worktrees = Expected(input.stanzas)

\* A listing of three stanzas, a detached one between two with a branch, the
\* last one under the base: two records, the last stanza's among them.
C17_Witness ==
    /\ Returned("list_worktrees") /\ Len(input.stanzas) = 3
    /\ input.stanzas[1].branch # None
    /\ input.stanzas[2].branch = None
    /\ input.stanzas[2].path = PathJoin(ProjectBase, <<"b">>)
    /\ input.stanzas[3].branch = Some(bSlash)
    /\ Len(call.worktrees) = 2
    /\ call.worktrees[2] = [path |-> input.stanzas[3].path, branch |-> bSlash]

\* The node at a place of a tree, None when there is none.
RECURSIVE NodeAt(_, _)
NodeAt(tree, place) ==
    IF tree = None THEN None
    ELSE IF place = <<>> THEN tree
    ELSE NodeAt(tree[1].entries[Head(place)], Tail(place))

AllPlaces == UNION {[1..n -> Names] : n \in 0..(MaxNodes - 1)}

\* C18: a copy that succeeds gives every node of the source tree, at every
\* depth, a node of the same kind at the same place of the destination: a
\* symlink a symlink with the same target (not a copy of what it points to,
\* and with nothing below it), a directory a directory, a regular file a
\* regular file; and the destination has no other node.
C18_CopyPreservesKinds ==
    (Returned("copy_path_preserve_symlinks") /\ call.result = "Ok") =>
        \A place \in AllPlaces :
            LET s == NodeAt(Some(input.src), place)
                d == NodeAt(call.dst, place)
            IN  /\ (s = None) <=> (d = None)
                /\ s # None =>
                     /\ d[1].kind = s[1].kind
                     /\ d[1].target = s[1].target

\* A directory with a file and a directory, the latter holding a symlink,
\* was copied: the symlink at depth two is a symlink to the same target.
C18_Witness ==
    /\ Returned("copy_path_preserve_symlinks") /\ call.result = "Ok"
    /\ NodeAt(Some(input.src), <<"a", "b">>) = Some(Symlink("../t"))
    /\ NodeAt(Some(input.src), <<"b">>) = Some(File)
    /\ NodeAt(call.dst, <<"a", "b">>) = Some(Symlink("../t"))

\* C20: merge_branch_to_default runs `git checkout <default>` and then
\* `git merge <branch>`; a checkout that exits non-zero fails the call
\* without the merge being run, a merge that exits non-zero fails it, and
\* in both cases the error carries the stderr of the failing step; the call
\* returns Ok only when both exited zero.
C20_CheckoutThenMerge ==
    Returned("merge_branch_to_default") =>
        LET log == call.git
            n == Len(log)
        IN  /\ \A i \in 1..n : log[i].cmd = "merge" =>
                 /\ i = n /\ i > 1 /\ log[i].args = <<input.branch>>
                 /\ log[i - 1].cmd = "checkout"
                 /\ log[i - 1].status = "exit zero"
            /\ \A i \in 1..n : log[i].cmd = "checkout" =>
                 /\ log[i].args = <<call.default>>
                 /\ \A j \in 1..(i - 1) : log[j].cmd \in {"symbolic-ref", "rev-parse"}
                 /\ log[i].status = "exit nonzero" =>
                      /\ i = n /\ call.result = "Err"
                      /\ \E a \in 1..Len(call.error.args) :
                            call.error.args[a] = Trim(input.checkout.stderr)
                 /\ log[i].status = "exit zero" => (i + 1 = n /\ log[n].cmd = "merge")
            /\ (n > 0 /\ log[n].cmd = "merge" /\ log[n].status = "exit nonzero") =>
                 /\ call.result = "Err"
                 /\ \E a \in 1..Len(call.error.args) :
                        call.error.args[a] = Trim(input.merge.stderr)
            /\ call.result = "Ok" <=>
                 /\ n >= 2
                 /\ log[n - 1].cmd = "checkout" /\ log[n - 1].status = "exit zero"
                 /\ log[n].cmd = "merge" /\ log[n].status = "exit zero"

\* The checkout of a default branch found by the fallback probes exited
\* non-zero: the call failed with git's stderr and no merge was run.
C20_Witness ==
    /\ Returned("merge_branch_to_default") /\ call.result = "Err"
    /\ call.default = sMaster
    /\ Last(call.git).cmd = "checkout"
    /\ Last(call.git).status = "exit nonzero"
    /\ call.error.args = <<sMaster, Trim(errConflict)>>

----------------------------------------------------------------------------
(* Properties of the life of a ControlClient.                              *)

Discarded == pc \in {"dropped", "failed"}

----------------------------------------------------------------------------
(* Properties of a CommandRunner that may be dropped, and of is_running.   *)

\* C22: whenever the caller has dropped the runner, the driver still runs
\* every remaining command and its thread returns, nothing being left in the
\* closed channel.
C22_DropNeverStopsDriver ==
    (receiver = "dropped") ~> (dpc = "finished" /\ cmd = NumCmds /\ chan = <<>>)

\* the runner was dropped in the middle of the run, and the driver returned
C22_Witness ==
    /\ receiver = "dropped" /\ dpc = "finished" /\ cmd = NumCmds
    /\ received # <<>>
    /\ \A i \in 1..Len(received) : received[i].type # "AllDone"

\* every event sent so far, while the receiver lives
Sent == received \o chan

IsAllDone(e) == e.type = "AllDone"

\* C23: AllDone is sent at most once and nothing is sent after it;
\* is_running() is false only when AllDone is in the channel or was
\* received; so a consumer that saw is_running() false and has emptied the
\* channel holds every event of the run, the last one being AllDone.
C23_NotRunningMeansAllDoneSent ==
    receiver = "open" =>
        /\ \A i \in 1..Len(Sent) : IsAllDone(Sent[i]) => i = Len(Sent)
        /\ ~is_running =>
              /\ Sent # <<>> /\ IsAllDone(Sent[Len(Sent)])
              /\ rdOut.st # "running" /\ rdErr.st # "running"
              /\ chan = <<>> => received = Sent /\ IsAllDone(received[Len(received)])

\* is_running() is false and the consumer has drained the channel
C23_Witness ==
    /\ receiver = "open" /\ ~is_running /\ chan = <<>>
    /\ Len(received) > 2 * NumCmds

----------------------------------------------------------------------------
(* Properties of a sequence of command calls against a tmux server.  The   *)
(* server numbers its reply blocks: block k answers the k-th command of    *)
(* the client, block 0 is the one tmux emits when the client attaches.     *)

\* C24: a call that returns Ok returns lines of the reply block of its own
\* command (the ncalls-th), also when the stream holds a block that no call
\* asked for.
C24_CallReturnsOwnBlock ==
    (pc = "idle" /\ ret.tag = "Ok") =>
        \A i \in 1..Len(ret.lines) : IsOutputOf(ret.lines[i], ncalls)

\* C25: a call fails on an %error line only if the line carries the
\* identifier the call captured from its %begin; an %error read before any
\* %begin, or one with another identifier, leaves the call pending.
C25_OnlyAwaitedErrorFails ==
    (pc = "idle" /\ ret.tag = "Err" /\ ret.msg.text = "tmux control error: ") =>
        LET r == parse_command_id(ret.msg.args[1])
        IN  command_id # None /\ r.ok /\ Some(r.val) = command_id

----------------------------------------------------------------------------
(* Properties of the mapping of branch names to worktree directories.      *)

\* C26: create_worktree(b) is refused as "already exists" only where a
\* worktree of branch b itself is registered at its path, and
\* delete_worktree(b) takes away no worktree of another branch.
C26_BranchesAddressOwnWorktrees ==
    /\ (/\ Returned("create_worktree")
        /\ call.error = Msg("Worktree already exists at {}", <<call.path>>))
          => [path |-> call.path, branch |-> call.branch]
                \in call.before.worktrees
    /\ Returned("delete_worktree") =>
          \A t \in call.before.worktrees \ call.world.worktrees :
              t.branch = call.branch

====
